---- MODULE Spec2Model ----
(***************************************************************************)
(* A model of app/optimizer.py: optimize_routes, its greedy fallback       *)
(* (_greedy_order plus the round-robin partition), the set-up of the       *)
(* OR-Tools routing model, and parse_hhmm.                                 *)
(*                                                                         *)
(* Numbers.  Coordinates are points of one meridian (equal longitude), so  *)
(* the haversine distance is proportional to the difference of latitude.   *)
(* A latitude is an integer number of grid steps; one step is 0.002 mile.  *)
(* Distances are integers in thousandths of a mile, rounded miles are      *)
(* integers in hundredths of a mile, savings_pct is an integer in          *)
(* hundredths of a percent.                                                *)
(*                                                                         *)
(* Text.  A string is a sequence of one-character strings; an Optional     *)
(* value is <<>> (None) or <<v>>.                                          *)
(***************************************************************************)
EXTENDS Integers, Sequences, FiniteSets, TLC

\* ---- bounds of the model
MaxStops == 3
MaxSolverStops == 2
MaxPos == 2
MaxVehicles == 2
MaxCapacity == 2

\* ---- constants of the program
AVG_MPH == 20
horizon == 1440
SlackMax == 30

None == <<>>
Some(v) == <<v>>

Max(a, b) == IF a >= b THEN a ELSE b
Min(a, b) == IF a <= b THEN a ELSE b
Abs(a) == IF a >= 0 THEN a ELSE -a

RECURSIVE Sum(_)
Sum(s) == IF s = <<>> THEN 0 ELSE Head(s) + Sum(Tail(s))

RECURSIVE Concat(_)
Concat(ss) == IF ss = <<>> THEN <<>> ELSE Head(ss) \o Concat(Tail(ss))

RECURSIVE Perms(_)
Perms(S) ==
  IF S = {} THEN {<<>>}
  ELSE UNION {{<<x>> \o p : p \in Perms(S \ {x})} : x \in S}

\* n / d rounded to the nearest integer, ties to the even one (d > 0).
RoundHalfEven(n, d) ==
  LET q == n \div d
      r == n % d
  IN IF 2 * r < d THEN q
     ELSE IF 2 * r > d THEN q + 1
     ELSE IF q % 2 = 0 THEN q ELSE q + 1

\* round(miles, 2): thousandths of a mile to hundredths of a mile.
Round2(mmiles) == RoundHalfEven(mmiles, 10)

\* ---- haversine_miles, on one meridian: 2 thousandths of a mile per step
haversine_miles(a, b) == 2 * Abs(a - b)

\* ---- parse_hhmm
Digits == <<"0", "1", "2", "3", "4", "5", "6", "7", "8", "9">>
IsDigit(c) == \E i \in 1..10 : Digits[i] = c
DigitVal(c) == (CHOOSE i \in 1..10 : Digits[i] = c) - 1

RECURSIVE LStrip(_)
LStrip(s) == IF s # <<>> /\ Head(s) = " " THEN LStrip(Tail(s)) ELSE s

RECURSIVE RStrip(_)
RStrip(s) ==
  IF s # <<>> /\ s[Len(s)] = " " THEN RStrip(SubSeq(s, 1, Len(s) - 1)) ELSE s

Strip(s) == RStrip(LStrip(s))

LowerChar(c) == IF c = "N" THEN "n" ELSE IF c = "A" THEN "a" ELSE c
Lower(s) == [i \in 1..Len(s) |-> LowerChar(s[i])]

RECURSIVE Split(_, _)
Split(s, sep) ==
  IF \A i \in 1..Len(s) : s[i] # sep THEN <<s>>
  ELSE LET k == CHOOSE i \in 1..Len(s) :
                  s[i] = sep /\ \A j \in 1..(i - 1) : s[j] # sep
       IN <<SubSeq(s, 1, k - 1)>> \o Split(SubSeq(s, k + 1, Len(s)), sep)

\* int(text): surrounding blanks, an optional sign, then digits only.
Unsigned(s) ==
  LET t == Strip(s)
  IN IF t # <<>> /\ t[1] \in {"+", "-"} THEN Tail(t) ELSE t
IsIntLiteral(s) ==
  Unsigned(s) # <<>> /\ \A i \in 1..Len(Unsigned(s)) : IsDigit(Unsigned(s)[i])

RECURSIVE DigitsValue(_)
DigitsValue(s) ==
  IF s = <<>> THEN 0
  ELSE 10 * DigitsValue(SubSeq(s, 1, Len(s) - 1)) + DigitVal(s[Len(s)])

IntValue(s) ==
  LET t == Strip(s)
  IN IF t[1] = "-" THEN -DigitsValue(Unsigned(s)) ELSE DigitsValue(Unsigned(s))

ParsedNone == [tag |-> "none", val |-> 0]
ParsedError == [tag |-> "error", val |-> 0]

\* None, an int, or ValueError (tag "error").
parse_hhmm(hhmm) ==
  IF hhmm = None THEN ParsedNone
  ELSE LET text == hhmm[1]
       IN IF text = <<>> \/ Strip(text) = <<>> \/ Lower(text) = <<"n", "a", "n">>
          THEN ParsedNone
          ELSE LET parts == Split(text, ":")
               IN IF Len(parts) # 2 THEN ParsedError
                  ELSE IF ~IsIntLiteral(parts[1]) \/ ~IsIntLiteral(parts[2])
                  THEN ParsedError
                  ELSE [tag |-> "int",
                        val |-> IntValue(parts[1]) * 60 + IntValue(parts[2])]

\* Python's  parse_hhmm(x) or default : None and 0 are both falsy.
OrDefault(parsed, default) ==
  IF parsed.tag = "int" /\ parsed.val # 0 THEN parsed.val ELSE default

\* ---- inputs of a call
Pos == 0..MaxPos

Text0000 == <<"0", "0", ":", "0", "0">>
Text0800 == <<"0", "8", ":", "0", "0">>
Text8_5 == <<"8", ":", "5">>
TextNan == <<"n", "a", "n">>
TextAbc == <<"a", "b", "c">>
Text12xx == <<"1", "2", ":", "x", "x">>

StopTexts ==
  {None, Some(<<>>), Some(TextNan), Some(Text0000), Some(Text0800),
   Some(Text8_5), Some(TextAbc), Some(Text12xx)}
DepotTexts == {None, Some(Text0000), Some(Text0800), Some(TextAbc)}

\* Stop = (id, lat, lng, name, demand, tw_start, tw_end); a stop is known
\* by its position in the list, lng is the meridian, name is not read.
GeoStops == [lat : Pos, demand : {1}, tw_start : {None}, tw_end : {None}]
WindowStops == [lat : {1}, demand : {-1, 2}, tw_start : StopTexts, tw_end : StopTexts]

SeqsUpTo(S, n) == UNION {[1..k -> S] : k \in 0..n}

VARIABLES
  depot, stops, vehicle_count, vehicle_capacity, depot_tw_start, depot_tw_end,
  HAVE_OR_TOOLS,
  pc, error, engine, note, routes, total_miles,
  routing, solution,
  visited, order, curr, buckets,
  result

inputs ==
  <<depot, stops, vehicle_count, vehicle_capacity, depot_tw_start,
    depot_tw_end, HAVE_OR_TOOLS>>
locals == <<engine, note, routes, total_miles>>
greedy == <<visited, order, curr, buckets>>
vars == <<inputs, pc, error, locals, routing, solution, greedy, result>>

NoRouting ==
  [built |-> FALSE, num_vehicles |-> 0, capacities |-> <<>>,
   demands |-> <<>>, ranges |-> <<>>]

\* Calls that differ in geometry and fleet, all windows absent; the calls
\* that reach the solver have at most MaxSolverStops stops.
InitGeometry ==
  /\ depot \in Pos
  /\ stops \in SeqsUpTo(GeoStops, IF HAVE_OR_TOOLS THEN MaxSolverStops ELSE MaxStops)
  /\ vehicle_count \in 0..MaxVehicles
  /\ vehicle_capacity \in 0..MaxCapacity
  /\ depot_tw_start = None
  /\ depot_tw_end = None

\* Calls that differ in the window strings, at most one stop, one vehicle.
InitWindows ==
  /\ depot = 0
  /\ stops \in SeqsUpTo(WindowStops, 1)
  /\ vehicle_count = 1
  /\ vehicle_capacity = MaxCapacity
  /\ depot_tw_start \in DepotTexts
  /\ depot_tw_end \in DepotTexts

Init ==
  /\ HAVE_OR_TOOLS \in BOOLEAN
  /\ InitGeometry \/ InitWindows
  /\ pc = "start"
  /\ error = ""
  /\ engine = ""
  /\ note = None
  /\ routes = <<>>
  /\ total_miles = 0
  /\ routing = NoRouting
  /\ solution = "not_called"
  /\ visited = {}
  /\ order = <<>>
  /\ curr = 0
  /\ buckets = <<>>
  /\ result = None

\* ---- the notes
NoteNoStops == "no stops"
NoteInfeasible == "No feasible OR-Tools solution found; using greedy fallback."
NoteInstall == "Install OR-Tools to enforce capacity/time windows exactly."

\* A variant of NoStops that never takes the early return.
NoStopsNever(ss) == Len(ss) < 0

\* ---- len(stops) == 0
NoStops(ss) == Len(ss) = 0

EmptyResult ==
  [engine |-> "none", routes |-> <<>>, total_miles |-> 0,
   baseline_miles |-> 0, savings_pct |-> 0, note |-> Some(NoteNoStops)]

ReturnEmpty ==
  /\ pc = "start"
  /\ NoStops(stops)
  /\ result' = Some(EmptyResult)
  /\ pc' = "done"
  /\ UNCHANGED <<inputs, error, locals, routing, solution, greedy>>

Begin ==
  /\ pc = "start"
  /\ ~NoStops(stops)
  /\ engine' = "greedy-fallback"
  /\ note' = None
  /\ routes' = <<>>
  /\ total_miles' = 0
  /\ pc' = "try_constrained"
  /\ UNCHANGED <<inputs, error, routing, solution, greedy, result>>

\* ---- the constrained router: the model handed to OR-Tools
\* points = [depot] + stops; node 0 is the depot, node i is stops[i].
PointLat(node) == IF node = 0 THEN depot ELSE stops[node].lat

\* dist_mmile[i][j] = int(round(miles * 1000)), 0 on the diagonal.
dist_mmile(i, j) ==
  IF i = j THEN 0 ELSE haversine_miles(PointLat(i), PointLat(j))

\* travel_time_callback: int(miles / (AVG_MPH / 60.0)), in minutes.
travel_time(i, j) == (dist_mmile(i, j) * 60) \div (1000 * AVG_MPH)

WindowTexts ==
  <<depot_tw_start, depot_tw_end>>
    \o Concat([i \in 1..Len(stops) |-> <<stops[i].tw_start, stops[i].tw_end>>])

\* Some parse_hhmm call of the set-up raises ValueError.
SomeWindowRaises ==
  \E k \in 1..Len(WindowTexts) : parse_hhmm(WindowTexts[k]).tag = "error"

\* time_dim.CumulVar(node).SetRange(start, end)
NodeRange(tw_start, tw_end) ==
  [lo |-> OrDefault(parse_hhmm(tw_start), 0),
   hi |-> OrDefault(parse_hhmm(tw_end), horizon)]

\* pywrapcp.RoutingIndexManager(n, vehicle_count, 0), the capacity dimension
\* and the time dimension; ranges[node + 1] is the range of node.
BuiltRouting ==
  [built |-> TRUE,
   num_vehicles |-> vehicle_count,
   capacities |-> [v \in 1..Max(0, vehicle_count) |-> Max(1, vehicle_capacity)],
   demands |-> <<0>> \o [i \in 1..Len(stops) |-> Max(0, stops[i].demand)],
   ranges |-> <<NodeRange(depot_tw_start, depot_tw_end)>>
                \o [i \in 1..Len(stops) |->
                      NodeRange(stops[i].tw_start, stops[i].tw_end)]]

SkipConstrained ==
  /\ pc = "try_constrained"
  /\ ~HAVE_OR_TOOLS
  /\ pc' = "check_engine"
  /\ UNCHANGED <<inputs, error, locals, routing, solution, greedy, result>>

WindowRaises ==
  /\ pc = "try_constrained"
  /\ HAVE_OR_TOOLS
  /\ SomeWindowRaises
  /\ pc' = "raised"
  /\ error' = "ValueError"
  /\ UNCHANGED <<inputs, locals, routing, solution, greedy, result>>

BuildModel ==
  /\ pc = "try_constrained"
  /\ HAVE_OR_TOOLS
  /\ ~SomeWindowRaises
  /\ routing' = BuiltRouting
  /\ pc' = "solve"
  /\ UNCHANGED <<inputs, error, locals, solution, greedy, result>>

\* ---- routing.SolveWithParameters: a solution, or None within the budget.
\* A solution gives each vehicle a sequence of stops; every stop is on
\* exactly one of them.
Candidates(n, nv) ==
  IF nv < 1 THEN {}
  ELSE {[v \in 1..nv |-> SelectSeq(p, LAMBDA i : a[i] = v)] :
          p \in Perms(1..n), a \in [1..n -> 1..nv]}

CapacityOK(rt, v, route) ==
  Sum([k \in 1..Len(route) |-> rt.demands[route[k] + 1]]) <= rt.capacities[v]

\* The cumulative time at each node of the route lies in the node's range;
\* between two nodes it grows by the travel time plus a wait of 0..SlackMax.
RECURSIVE TimeOK(_, _, _, _, _)
TimeOK(rt, route, k, prev, iv) ==
  IF iv.lo > iv.hi THEN FALSE
  ELSE IF k > Len(route) THEN TRUE
  ELSE LET node == route[k]
           r == rt.ranges[node + 1]
           tr == travel_time(prev, node)
       IN TimeOK(rt, route, k + 1, node,
                 [lo |-> Max(iv.lo + tr, r.lo),
                  hi |-> Min(Min(iv.hi + tr + SlackMax, r.hi), horizon)])

Feasible(rt, sol) ==
  \A v \in 1..Len(sol) :
    /\ CapacityOK(rt, v, sol[v])
    /\ TimeOK(rt, sol[v], 1, 0, rt.ranges[1])

Solutions(rt) ==
  {sol \in Candidates(Len(stops), rt.num_vehicles) : Feasible(rt, sol)}

\* total_mmiles of one vehicle, from the matrix: depot, its stops, depot.
RECURSIVE WalkMMile(_, _, _)
WalkMMile(route, k, prev) ==
  IF k > Len(route) THEN dist_mmile(prev, 0)
  ELSE dist_mmile(prev, route[k]) + WalkMMile(route, k + 1, route[k])

NonEmpty(rs) == SelectSeq(rs, LAMBDA r : r # <<>>)

SolveFeasible ==
  /\ pc = "solve"
  /\ \E sol \in Solutions(routing) :
       /\ routes' = NonEmpty(sol)
       /\ total_miles' =
            Round2(Sum([v \in 1..Len(sol) |-> WalkMMile(sol[v], 1, 0)]))
  /\ solution' = "found"
  /\ engine' = "ortools"
  /\ pc' = "check_engine"
  /\ UNCHANGED <<inputs, error, note, routing, greedy, result>>

SolveNone ==
  /\ pc = "solve"
  /\ solution' = "none"
  /\ note' = Some(NoteInfeasible)
  /\ pc' = "check_engine"
  /\ UNCHANGED <<inputs, error, engine, routes, total_miles, routing, greedy, result>>

\* OR-Tools is handed vehicle_count as it is (line 91).  What the library
\* does with a fleet of no vehicle is its own: it finds no solution
\* (SolveNone: no vehicle can visit a stop) or it refuses the model.
SolverRejects ==
  /\ pc = "solve"
  /\ routing.num_vehicles < 1
  /\ pc' = "raised"
  /\ error' = "SolverError"
  /\ UNCHANGED <<inputs, locals, routing, solution, greedy, result>>

\* ---- the greedy fallback
\* if engine == "greedy-fallback":
FallbackSelected(e) == e = "greedy-fallback"

EnterFallback ==
  /\ pc = "check_engine"
  /\ FallbackSelected(engine)
  /\ visited' = {}
  /\ order' = <<>>
  /\ curr' = depot
  /\ pc' = "greedy"
  /\ UNCHANGED <<inputs, error, locals, routing, solution, buckets, result>>

SkipFallback ==
  /\ pc = "check_engine"
  /\ ~FallbackSelected(engine)
  /\ pc' = "metrics"
  /\ UNCHANGED <<inputs, error, locals, routing, solution, greedy, result>>

\* _greedy_order.  Indices are 1-based here; NoIdx is best_idx = None and
\* Inf is float("inf"), above every distance of the grid.
NoIdx == 0
Inf == 2 * MaxPos + 1

\* A variant of Closer that lets a later stop at the same distance win.
CloserOrEqual(d, best_dist) == d <= best_dist

\* if d < best_dist:
Closer(d, best_dist) == d < best_dist

\* for i, s in enumerate(stops): ...
RECURSIVE Scan(_, _, _, _, _)
Scan(ss, vis, cur, i, best) ==
  IF i > Len(ss) THEN best
  ELSE IF i \in vis THEN Scan(ss, vis, cur, i + 1, best)
  ELSE LET d == haversine_miles(cur, ss[i].lat)
       IN IF Closer(d, best.dist)
          THEN Scan(ss, vis, cur, i + 1, [idx |-> i, dist |-> d])
          ELSE Scan(ss, vis, cur, i + 1, best)

Nearest(ss, vis, cur) == Scan(ss, vis, cur, 1, [idx |-> NoIdx, dist |-> Inf])

\* A variant of MoreToVisit that leaves the loop one stop early.
MoreToVisitButOne(vis, ss) == Cardinality(vis) + 1 < Len(ss)

\* while len(visited) < len(stops):
MoreToVisit(vis, ss) == Cardinality(vis) < Len(ss)

\* One turn of the while loop; stops[None] raises TypeError.
GreedyStep ==
  /\ pc = "greedy"
  /\ MoreToVisit(visited, stops)
  /\ LET best == Nearest(stops, visited, curr)
     IN /\ visited' = visited \cup {best.idx}
        /\ order' = Append(order, best.idx)
        /\ IF best.idx = NoIdx
           THEN pc' = "raised" /\ error' = "TypeError" /\ curr' = curr
           ELSE pc' = pc /\ error' = error /\ curr' = stops[best.idx].lat
  /\ UNCHANGED <<inputs, locals, routing, solution, buckets, result>>

\* A variant of BucketOf that starts the round at the second vehicle.
BucketOfShifted(idx, nb) == (idx + 1) % nb

\* buckets[idx % len(buckets)].append(s_idx), idx from 0.
BucketOf(idx, nb) == idx % nb

RECURSIVE Distribute(_, _, _)
Distribute(ord, k, bs) ==
  IF k > Len(ord) THEN bs
  ELSE Distribute(ord, k + 1,
                  [bs EXCEPT ![BucketOf(k - 1, Len(bs)) + 1] = Append(@, ord[k])])

\* buckets = [[] for _ in range(max(1, vehicle_count))], then filled.
Buckets(ord, vc) == Distribute(ord, 1, [v \in 1..Max(1, vc) |-> <<>>])

\* A variant of FallbackNote that sets no default note.
FallbackNoteKept(n) == n

\* if note is None: note = "Install OR-Tools ..."
FallbackNote(n) == IF n = None THEN Some(NoteInstall) ELSE n

\* The length of depot, the stops of one bucket, depot, by haversine_miles
\* (the sum is a float in the program, a whole number of thousandths here).
RECURSIVE WalkMiles(_, _, _)
WalkMiles(b, k, cur) ==
  IF k > Len(b) THEN haversine_miles(cur, depot)
  ELSE haversine_miles(cur, stops[b[k]].lat)
         + WalkMiles(b, k + 1, stops[b[k]].lat)

\* The partition of the tour, the routes (a route entry is the stop's index
\* in the input list, for the dict made of that stop) and their length.
Partition ==
  /\ pc = "greedy"
  /\ ~MoreToVisit(visited, stops)
  /\ buckets' = Buckets(order, vehicle_count)
  /\ routes' = NonEmpty(buckets')
  /\ total_miles' =
       Round2(Sum([b \in 1..Len(buckets') |-> WalkMiles(buckets'[b], 1, depot)]))
  /\ note' = FallbackNote(note)
  /\ pc' = "metrics"
  /\ UNCHANGED <<inputs, error, engine, routing, solution, visited, order, curr, result>>

\* ---- baseline and savings
\* depot, the stops in input order, depot.
BaselineMMile == WalkMiles([i \in 1..Len(stops) |-> i], 1, depot)

\* A variant of SavingsPct that reports full savings at a zero baseline.
SavingsPctFullAtZero(baseline_miles, total) ==
  IF baseline_miles > 0
  THEN RoundHalfEven((baseline_miles - total) * 10000, baseline_miles)
  ELSE 10000

\* round((baseline_miles - total_miles) / baseline_miles * 100, 2)
\*   if baseline_miles > 0 else 0.0
SavingsPct(baseline_miles, total) ==
  IF baseline_miles > 0
  THEN RoundHalfEven((baseline_miles - total) * 10000, baseline_miles)
  ELSE 0

\* if note: result["note"] = note
NoteKey(n) == IF n # None /\ n[1] # "" THEN n ELSE None

Metrics ==
  /\ pc = "metrics"
  /\ LET baseline_miles == Round2(BaselineMMile)
     IN result' =
          Some([engine |-> engine, routes |-> routes, total_miles |-> total_miles,
                baseline_miles |-> baseline_miles,
                savings_pct |-> SavingsPct(baseline_miles, total_miles),
                note |-> NoteKey(note)])
  /\ pc' = "done"
  /\ UNCHANGED <<inputs, error, locals, routing, solution, greedy>>

Next ==
  \/ ReturnEmpty
  \/ Begin
  \/ SkipConstrained
  \/ WindowRaises
  \/ BuildModel
  \/ SolveFeasible
  \/ SolveNone
  \/ SolverRejects
  \/ EnterFallback
  \/ SkipFallback
  \/ GreedyStep
  \/ Partition
  \/ Metrics

Spec == Init /\ [][Next]_vars

\* ---- the claims
Res == result[1]
Returned == pc = "done"
StopIds == 1..Len(stops)
Range(seq) == {seq[i] : i \in 1..Len(seq)}
IsPermutationOf(seq, S) == Len(seq) = Cardinality(S) /\ Range(seq) = S
FallbackDone == pc \in {"metrics", "done"} /\ engine = "greedy-fallback"

\* C1: with a non-empty stop list and vehicle_count >= 1, the greedy fallback
\* never fails and never stalls (each turn of its loop visits one new stop,
\* and a next step exists until the routes are built), and the routes it
\* returns, concatenated, are a permutation of the input stops.
C1_GreedyRoutesArePermutation ==
  (~NoStops(stops) /\ vehicle_count >= 1) =>
    /\ error # "TypeError"
    /\ pc = "greedy" =>
         /\ IsPermutationOf(order, visited)
         /\ visited \subseteq StopIds
         /\ ENABLED (GreedyStep \/ Partition)
    /\ FallbackDone => IsPermutationOf(Concat(routes), StopIds)
    /\ (Returned /\ Res.engine = "greedy-fallback") =>
         IsPermutationOf(Concat(Res.routes), StopIds)

C1_Witness ==
  /\ Returned
  /\ Res.engine = "greedy-fallback"
  /\ Len(stops) = 3
  /\ vehicle_count = 2
  /\ Len(Res.routes) = 2

\* C2: every call ends with a result whose engine is "none" iff there is no
\* stop, "constrained" iff there are stops and the solver is available and
\* found a solution, "greedy-fallback" iff there are stops and the solver is
\* unavailable or found none; the fallback runs only after the constrained
\* attempt was skipped or failed.
C2_ThreeOutcomes ==
  /\ pc # "raised"
  /\ pc = "greedy" => solution # "found"
  /\ Returned =>
       /\ Res.engine \in {"none", "constrained", "greedy-fallback"}
       /\ Res.engine = "none" <=> NoStops(stops)
       /\ Res.engine = "constrained" <=>
            (~NoStops(stops) /\ HAVE_OR_TOOLS /\ solution = "found")
       /\ Res.engine = "greedy-fallback" <=>
            (~NoStops(stops) /\ (~HAVE_OR_TOOLS \/ solution # "found"))

\* C3: a window string that does not parse, on a stop or on the depot, never
\* makes the call fail, with the solver available or not.
C3_MalformedWindowNeverRaises ==
  SomeWindowRaises => pc # "raised"

\* C4: on every engine path the fleet is clamped: an engine works with
\* max(1, vehicle_count) vehicles of capacity max(1, vehicle_capacity), and a
\* call with a fleet parameter below 1 returns a result.
C4_FleetClampedOnEveryPath ==
  /\ routing.built =>
       /\ routing.num_vehicles = Max(1, vehicle_count)
       /\ Len(routing.capacities) = Max(1, vehicle_count)
       /\ \A v \in 1..Len(routing.capacities) :
            routing.capacities[v] = Max(1, vehicle_capacity)
  /\ FallbackDone => Len(buckets) = Max(1, vehicle_count)
  /\ ((vehicle_count < 1 \/ vehicle_capacity < 1) /\ ~SomeWindowRaises) =>
       pc # "raised"

\* C5: with no stop the call returns at once, without setting up the solver
\* and without running the greedy router, engine "none", no route, and zero
\* total_miles, baseline_miles and savings_pct, whatever the other inputs.
C5_EmptyStopListReturnsNone ==
  Len(stops) = 0 =>
    /\ pc \in {"start", "done"}
    /\ ~routing.built
    /\ solution = "not_called"
    /\ visited = {} /\ order = <<>> /\ buckets = <<>>
    /\ Returned =>
         /\ Res.engine = "none"
         /\ Res.routes = <<>>
         /\ Res.total_miles = 0
         /\ Res.baseline_miles = 0
         /\ Res.savings_pct = 0

C5_Witness ==
  /\ Returned
  /\ Len(stops) = 0
  /\ HAVE_OR_TOOLS
  /\ depot_tw_start = Some(TextAbc)

\* C6: a result of the greedy fallback has a note that is a non-empty
\* string: the infeasibility note when the solver found no solution, the
\* note that capacity and time windows are not enforced when there is no
\* solver.
C6_FallbackResultHasNote ==
  (Returned /\ Res.engine = "greedy-fallback") =>
    /\ Res.note # None
    /\ Res.note[1] # ""
    /\ solution = "none" <=> HAVE_OR_TOOLS
    /\ solution = "none" => Res.note = Some(NoteInfeasible)
    /\ ~HAVE_OR_TOOLS => Res.note = Some(NoteInstall)

C6_Witness ==
  /\ Returned
  /\ Res.engine = "greedy-fallback"
  /\ solution = "none"
  /\ Res.note = Some(NoteInfeasible)

\* The length of depot, the stops in input order, depot.
InputOrderLats == <<depot>> \o [i \in 1..Len(stops) |-> stops[i].lat] \o <<depot>>
InputOrderMMile ==
  Sum([i \in 1..(Len(InputOrderLats) - 1) |->
         haversine_miles(InputOrderLats[i], InputOrderLats[i + 1])])

\* C7: in every result baseline_miles is the rounded length of depot, stops
\* in input order, depot; savings_pct is 0 when baseline_miles is 0, whatever
\* total_miles is, and otherwise (baseline_miles - total_miles) /
\* baseline_miles * 100 rounded to two decimals.
C7_SavingsDefinedAtZeroBaseline ==
  Returned =>
    /\ Res.baseline_miles = Round2(InputOrderMMile)
    /\ Res.baseline_miles = 0 => Res.savings_pct = 0
    /\ Res.baseline_miles # 0 =>
         Res.savings_pct =
           RoundHalfEven((Res.baseline_miles - Res.total_miles) * 10000,
                         Res.baseline_miles)

C7_Witness ==
  /\ Returned
  /\ Res.baseline_miles = 0
  /\ Res.total_miles > 0
  /\ Res.savings_pct = 0

StandAt(k) == IF k = 1 THEN depot ELSE stops[order[k - 1]].lat
LeftAt(k) == StopIds \ {order[j] : j \in 1..(k - 1)}

\* C9: every stop of the greedy order was, when picked, an unvisited stop at
\* the least distance from the current position, and the one of smallest
\* input index among those at that distance; the order is so determined by
\* depot and stops alone.
C9_NearestThenFirstIndex ==
  \A k \in 1..Len(order) :
    order[k] # NoIdx =>
      /\ order[k] \in LeftAt(k)
      /\ \A i \in LeftAt(k) :
           LET dk == haversine_miles(StandAt(k), stops[order[k]].lat)
               di == haversine_miles(StandAt(k), stops[i].lat)
           IN dk <= di /\ (di = dk => order[k] <= i)

C9_Witness ==
  /\ Returned
  /\ Len(order) = 3
  /\ \E k \in 1..Len(order) : \E i \in LeftAt(k) :
       /\ i # order[k]
       /\ stops[i].lat # stops[order[k]].lat
       /\ haversine_miles(StandAt(k), stops[i].lat)
            = haversine_miles(StandAt(k), stops[order[k]].lat)

\* The window a node declares: a bound that is specified and parses is the
\* bound; an unspecified start is 0, an unspecified end is the horizon.
DeclaredRange(tw_start, tw_end) ==
  [lo |-> IF parse_hhmm(tw_start).tag = "int" THEN parse_hhmm(tw_start).val ELSE 0,
   hi |-> IF parse_hhmm(tw_end).tag = "int" THEN parse_hhmm(tw_end).val ELSE horizon]

\* C10: in the constrained router the range set on every node, depot and
\* stops, is the window the node declares, 00:00 included.
C10_RangeIsDeclaredWindow ==
  routing.built =>
    /\ routing.ranges[1] = DeclaredRange(depot_tw_start, depot_tw_end)
    /\ \A i \in 1..Len(stops) :
         routing.ranges[i + 1] = DeclaredRange(stops[i].tw_start, stops[i].tw_end)

====
